---- MODULE Spec2Model ----
(***************************************************************************)
(* A model of scripts/glsl_processor.py: the include resolver, the comment *)
(* stripper, the whitespace compactor, the float literal optimizer, the    *)
(* packager and the driver (main).                                         *)
(*                                                                         *)
(* A text is a sequence of one-character strings; a path is the sequence   *)
(* of its components below the file system root; bytes are 0..255.         *)
(***************************************************************************)
EXTENDS Integers, Sequences, FiniteSets, TLC

VARIABLES
    pc,         \* where the run is: the stage main / process_shader is about to execute
    args,       \* argparse's result: [compress, output_file]
    fs,         \* the file system: a function from the paths of the existing files to their text
    matches,    \* for each file, the matches of include_pattern in its text, in order
    input,      \* the text the run started from (the top-level file as read, or the drawn input)
    text,       \* shader_content / formatted_shader, the value handed from stage to stage
    stack,      \* the activations of process_includes, the innermost last
    included,   \* included_files, the set shared by all activations of one top-level call
    log,        \* what replacer did, in order: [op, path] with op "skip", "missing", "add" or "read"
    err,        \* what was printed to sys.stderr, in order
    out,        \* what was written: NoOutput, or [dest, mode, data]
    exit,       \* the exit status: -1 while running
    hist        \* the stages that have run, each with the value it returned

vars == <<pc, args, fs, matches, input, text, stack, included, log, err, out, exit, hist>>

\* Python's None as an output file name; no path (the root is no file); no output.
None == "None"
NoPath == <<>>
NoOutput == [dest |-> None, mode |-> None, data |-> <<>>]

-----------------------------------------------------------------------------
(* Characters and sequences *)

NL == "\n"
QUOTE == "\""

\* Python's str.isspace / the regex class \s, over the characters of the model.
Space == {" ", "\t", "\n", "\r", "\f"}

\* The regex class [ \t].
HSpace == {" ", "\t"}

\* The boundaries of str.splitlines, over the characters of the model.
LineBreak == {"\n", "\r", "\f"}

\* The regex class \d.
Digit == {"0", "1", "2", "3", "4", "5", "6", "7", "8", "9"}

\* The regex class \w, over the characters of the model.
Word == Digit \cup {"a", "b", "c", "d", "e", "f", "i", "l", "n", "s", "u", "x", "_"}

Last(s) == s[Len(s)]

\* The least and the greatest member of a non-empty set of integers.
Min(S) == CHOOSE x \in S : \A y \in S : x <= y
Max(S) == CHOOSE x \in S : \A y \in S : x >= y

\* s[i..j], empty when j < i.
Slice(s, i, j) == IF j < i THEN <<>> ELSE SubSeq(s, i, j)

\* s from index i on.
From(s, i) == Slice(s, i, Len(s))

\* Whether p occurs in s at index i.
At(s, i, p) == i + Len(p) - 1 <= Len(s) /\ SubSeq(s, i, i + Len(p) - 1) = p

\* The indices of s in order, and the elements of s at the indices kept.
Indices(s) == [i \in 1..Len(s) |-> i]
Pick(s, kept) == [k \in 1..Len(kept) |-> s[kept[k]]]

RECURSIVE Concat(_)
\* "".join(parts), by halves.
Concat(parts) ==
    IF Len(parts) = 0 THEN <<>>
    ELSE IF Len(parts) = 1 THEN parts[1]
    ELSE Concat(SubSeq(parts, 1, Len(parts) \div 2))
         \o Concat(SubSeq(parts, Len(parts) \div 2 + 1, Len(parts)))

\* '\n'.join(parts)
JoinNL(parts) ==
    Concat([i \in 1..Len(parts) |-> IF i = 1 THEN parts[1] ELSE <<NL>> \o parts[i]])

\* The first index >= i of s whose character is not in class (Len(s)+1 if none):
\* where a greedy run of the class that starts at i ends.
SkipWhile(s, i, class) ==
    IF i > Len(s) THEN i
    ELSE Min({j \in i..Len(s) : s[j] \notin class} \cup {Len(s) + 1})

\* The first index >= i of s whose character is in class (Len(s)+1 if none).
SkipUntil(s, i, class) ==
    IF i > Len(s) THEN i
    ELSE Min({j \in i..Len(s) : s[j] \in class} \cup {Len(s) + 1})

\* The last index <= i of s whose character is not in class (0 if none): the
\* index before the run of the class that ends at i.
SkipBack(s, i, class) == Max({j \in 1..i : s[j] \notin class} \cup {0})

\* line.lstrip()
LStrip(s) == From(s, SkipWhile(s, 1, Space))

\* line.strip() is non-empty
NonBlank(s) == SkipWhile(s, 1, Space) <= Len(s)

\* line.lstrip().startswith('#')
IsDirective(s) ==
    LET i == SkipWhile(s, 1, Space) IN i <= Len(s) /\ s[i] = "#"

\* s.split(sep) for a one-character separator: the pieces between the
\* separators, the empty ones too.
SplitOn(s, sep) ==
    LET seps == SelectSeq(Indices(s), LAMBDA i : s[i] = sep)
    IN [k \in 1..(Len(seps) + 1) |->
           Slice(s, IF k = 1 THEN 1 ELSE seps[k - 1] + 1,
                    IF k > Len(seps) THEN Len(s) ELSE seps[k] - 1)]

\* s.split('\n')
SplitNL(s) == SplitOn(s, NL)

\* s.splitlines(): "\r\n" is one boundary, and no empty last line follows a
\* final boundary.
SplitLines(s) ==
    LET ends == SelectSeq(Indices(s),
                          LAMBDA i : /\ s[i] \in LineBreak
                                     /\ ~(s[i] = "\r" /\ i < Len(s) /\ s[i + 1] = NL))
        BoundaryStart(e) == IF s[e] = NL /\ e > 1 /\ s[e - 1] = "\r" THEN e - 1 ELSE e
        LineStart(k) == IF k = 1 THEN 1 ELSE ends[k - 1] + 1
        ended == [k \in 1..Len(ends) |-> Slice(s, LineStart(k), BoundaryStart(ends[k]) - 1)]
    IN IF LineStart(Len(ends) + 1) > Len(s) THEN ended
       ELSE Append(ended, From(s, LineStart(Len(ends) + 1)))

-----------------------------------------------------------------------------
(* remove_comments *)

\* The first index >= i at which p occurs in s; 0 if there is none.
FindSeq(s, i, p) ==
    LET found == {j \in i..(Len(s) - Len(p) + 1) : At(s, j, p)}
    IN IF found = {} THEN 0 ELSE Min(found)

RECURSIVE StripBlockComments(_, _)
\* re.sub(r'/\*.*?\*/', '', s, flags=re.DOTALL), from index i: the first closing
\* wins, and an opening with no closing after it stays.
StripBlockComments(s, i) ==
    LET open == FindSeq(s, i, <<"/", "*">>)
        close == IF open = 0 THEN 0 ELSE FindSeq(s, open + 2, <<"*", "/">>)
    IN IF close = 0 THEN From(s, i)
       ELSE Slice(s, i, open - 1) \o StripBlockComments(s, close + 2)

RECURSIVE StripLineComments(_, _)
\* re.sub(r'//.*?(?=\n|$)', '', s), from index i: up to the next "\n" or the end.
StripLineComments(s, i) ==
    LET open == FindSeq(s, i, <<"/", "/">>)
    IN IF open = 0 THEN From(s, i)
       ELSE Slice(s, i, open - 1) \o StripLineComments(s, SkipUntil(s, open + 2, {NL}))

RemoveComments(s) == StripLineComments(StripBlockComments(s, 1), 1)

-----------------------------------------------------------------------------
(* remove_newlines *)

\* The test of line 66 without its middle term.
NeedsNewlineNoPrev(lines, i) ==
    LET is_directive == IsDirective(lines[i])
        next_directive == i < Len(lines) /\ IsDirective(lines[i + 1])
    IN i > 1 /\ (is_directive \/ next_directive)

\* Whether a "\n" goes before line i of the non-blank lines.
NeedsNewline(lines, i) ==
    LET is_directive == IsDirective(lines[i])
        prev_directive == i > 1 /\ IsDirective(lines[i - 1])
        next_directive == i < Len(lines) /\ IsDirective(lines[i + 1])
    IN i > 1 /\ (is_directive \/ prev_directive \/ next_directive)

RemoveNewlines(s) ==
    LET lines == SelectSeq(SplitLines(s), NonBlank)
    IN Concat([i \in 1..Len(lines) |->
                  (IF NeedsNewline(lines, i) THEN <<NL>> ELSE <<>>) \o lines[i]])

-----------------------------------------------------------------------------
(* normalize_spaces *)

Symbols ==
    <<",", ".", "(", ")", "{", "}", ";", ":",
      "+", "-", "*", "/", "=", "<", ">",
      "!", "?", "|", "&">>

\* The pattern of line 93 without its "+": one [ \t] goes when the symbol
\* follows it.
StripOneBefore(s, symbol) ==
    Pick(s, SelectSeq(Indices(s),
                      LAMBDA i : ~(s[i] \in HSpace /\ i < Len(s) /\ s[i + 1] = symbol)))

\* re.sub(rf'[ \t]+{escaped}', symbol, s): a run of [ \t] goes when the symbol
\* follows it.
StripBefore(s, symbol) ==
    Pick(s, SelectSeq(Indices(s),
                      LAMBDA i : ~(/\ s[i] \in HSpace
                                   /\ SkipWhile(s, i, HSpace) <= Len(s)
                                   /\ s[SkipWhile(s, i, HSpace)] = symbol)))

\* re.sub(rf'{escaped}[ \t]+', symbol, s): a run of [ \t] goes when it follows
\* the symbol.
StripAfter(s, symbol) ==
    Pick(s, SelectSeq(Indices(s),
                      LAMBDA i : ~(/\ s[i] \in HSpace
                                   /\ SkipBack(s, i, HSpace) >= 1
                                   /\ s[SkipBack(s, i, HSpace)] = symbol)))

\* re.sub(r'[ \t]+', ' ', s): of a run of [ \t] one space stays.
CollapseSpaces(s) ==
    Pick([i \in 1..Len(s) |-> IF s[i] \in HSpace THEN " " ELSE s[i]],
         SelectSeq(Indices(s), LAMBDA i : ~(s[i] \in HSpace /\ i > 1 /\ s[i - 1] \in HSpace)))

RECURSIVE StripSymbols(_, _)
\* The loop over the symbols, from symbol k on.
StripSymbols(line, k) ==
    IF k > Len(Symbols) \/ line = <<>> THEN line
    ELSE StripSymbols(StripAfter(StripBefore(line, Symbols[k]), Symbols[k]), k + 1)

\* A directive line: re.sub(r'^\s*#', '#', line), then the runs of [ \t] to one space.
NormalizeDirective(line) ==
    CollapseSpaces(<<"#">> \o From(line, SkipWhile(line, 1, Space) + 1))

\* Any other line.
NormalizeOther(line) == CollapseSpaces(StripSymbols(line, 1))

NormalizeLine(line) ==
    IF IsDirective(line) THEN NormalizeDirective(line) ELSE NormalizeOther(line)

NormalizeSpaces(s) ==
    LET lines == SplitNL(s)
    IN JoinNL([i \in 1..Len(lines) |-> NormalizeLine(lines[i])])

-----------------------------------------------------------------------------
(* optimize_float_literals *)

\* Whether \b(\d+)\.0+(?!\d) matches s at index i: the digits run to the point,
\* the zeros run to a character that is no digit.
FractionZerosAt(s, i) ==
    LET j == SkipWhile(s, i, Digit)
        k == SkipWhile(s, j + 1, {"0"})
    IN /\ s[i] \in Digit
       /\ (i = 1 \/ s[i - 1] \notin Word)
       /\ j <= Len(s) /\ s[j] = "."
       /\ k > j + 1
       /\ (k > Len(s) \/ s[k] \notin Digit)

RECURSIVE StripFractionZeros(_, _)
\* re.sub(r'\b(\d+)\.0+(?!\d)', r'\1.', s), from index i.
StripFractionZeros(s, i) ==
    LET found == {m \in i..Len(s) : FractionZerosAt(s, m)}
        j == SkipWhile(s, Min(found), Digit)
        k == SkipWhile(s, j + 1, {"0"})
    IN IF found = {} THEN From(s, i)
       ELSE Slice(s, i, j - 1) \o <<".">> \o StripFractionZeros(s, k)

\* Whether \b0\.([1-9]\d*)\b matches s at index i.
LeadingZeroAt(s, i) ==
    LET k == SkipWhile(s, i + 3, Digit)
    IN /\ s[i] = "0"
       /\ (i = 1 \/ s[i - 1] \notin Word)
       /\ i + 2 <= Len(s)
       /\ s[i + 1] = "."
       /\ s[i + 2] \in (Digit \ {"0"})
       /\ (k > Len(s) \/ s[k] \notin Word)

RECURSIVE StripLeadingZero(_, _)
\* re.sub(r'\b0\.([1-9]\d*)\b', r'.\1', s), from index i.
StripLeadingZero(s, i) ==
    LET found == {m \in i..Len(s) : LeadingZeroAt(s, m)}
        k == SkipWhile(s, Min(found) + 3, Digit)
    IN IF found = {} THEN From(s, i)
       ELSE Slice(s, i, Min(found) - 1) \o <<".">> \o Slice(s, Min(found) + 2, k - 1)
            \o StripLeadingZero(s, k)

\* The second rule alone.
OnlyLeadingZero(s) == StripLeadingZero(s, 1)

OptimizeFloatLiterals(s) == StripLeadingZero(StripFractionZeros(s, 1), 1)

-----------------------------------------------------------------------------
(* Paths *)

RECURSIVE Normalize(_, _)
\* Path.resolve() on a file system without symbolic links: "." and empty
\* components go, ".." drops the component before it and stays at the root.
Normalize(parts, acc) ==
    IF parts = <<>> THEN acc
    ELSE IF Head(parts) \in {<<>>, <<".">>} THEN Normalize(Tail(parts), acc)
    ELSE IF Head(parts) = <<".", ".">>
         THEN Normalize(Tail(parts), Slice(acc, 1, Len(acc) - 1))
    ELSE Normalize(Tail(parts), Append(acc, Head(parts)))

\* (base_path / name).resolve(): an absolute name replaces the base.
Resolve(base, name) ==
    Normalize((IF name[1] = "/" THEN <<>> ELSE base) \o SplitOn(name, "/"), <<>>)

\* file_path.parent
Parent(path) == Slice(path, 1, Len(path) - 1)

-----------------------------------------------------------------------------
(* process_includes: the pattern *)

NoMatch == [start |-> 0, end |-> 0, name |-> <<>>]

IncludeWord == <<"#", "i", "n", "c", "l", "u", "d", "e">>

\* A match of ^\s*#include\s+"([^"]+)" (re.MULTILINE) that starts at index i, or
\* NoMatch. Every quantifier of the pattern is followed by a character outside its
\* class, so the greedy run is the only candidate.
MatchAt(s, i) ==
    LET a == SkipWhile(s, i, Space)
        b == a + Len(IncludeWord)
        c == SkipWhile(s, b, Space)
        d == SkipUntil(s, c + 1, {QUOTE})
    IN IF /\ (i = 1 \/ s[i - 1] = NL)
          /\ At(s, a, IncludeWord)
          /\ c > b
          /\ c <= Len(s) /\ s[c] = QUOTE
          /\ d > c + 1
          /\ d <= Len(s)
       THEN [start |-> i, end |-> d, name |-> Slice(s, c + 1, d - 1)]
       ELSE NoMatch

\* The leftmost match that starts at index pos or later, as re.sub finds it.
NextMatch(s, pos) ==
    LET found == {i \in pos..Len(s) : MatchAt(s, i) # NoMatch}
    IN IF found = {} THEN NoMatch ELSE MatchAt(s, Min(found))

RECURSIVE MatchesFrom(_, _)
\* The matches the substitution finds in s from index pos on, in order: each
\* search starts where the match before ended.
MatchesFrom(s, pos) ==
    LET m == NextMatch(s, pos)
    IN IF m = NoMatch THEN <<>> ELSE <<m>> \o MatchesFrom(s, m.end + 1)

RECURSIVE InBlockComment(_, _, _)
\* Whether index k of s lies inside a block comment, the comments being those
\* remove_comments finds from index i on.
InBlockComment(s, i, k) ==
    LET open == FindSeq(s, i, <<"/", "*">>)
        close == IF open = 0 THEN 0 ELSE FindSeq(s, open + 2, <<"*", "/">>)
    IN IF close = 0 \/ open > k THEN FALSE
       ELSE k <= close + 1 \/ InBlockComment(s, close + 2, k)

\* Whether the directive of match m of s lies inside a block comment.
InComment(s, m) == InBlockComment(s, 1, SkipWhile(s, m.start, Space))

\* A substitution that passes over the directives inside block comments.
ScanOutsideComments(s) == SelectSeq(MatchesFrom(s, 1), LAMBDA m : ~InComment(s, m))

\* The indices of s at which the pattern matches.
MatchStarts(s) == {i \in 1..Len(s) : MatchAt(s, i) # NoMatch}

RECURSIVE Leftmost(_, _, _)
\* The matches that start at the indices in starts, from index pos on, as the
\* substitution takes them: the leftmost first, and the next one from where it
\* ended.
Leftmost(s, starts, pos) ==
    LET found == {i \in starts : i >= pos}
        m == MatchAt(s, Min(found))
    IN IF found = {} THEN <<>> ELSE <<m>> \o Leftmost(s, starts, m.end + 1)

\* The matches include_pattern.sub hands to replacer for text s (line 47).
Scan(s) == Leftmost(s, MatchStarts(s), 1)

-----------------------------------------------------------------------------
(* process_includes as a function: the whole substitution in one evaluation *)

\* A test of line 36 that finds no path.
NeverIncluded(path, included_files) == FALSE

\* The test of line 36.
AlreadyIncluded(path, included_files) == path \in included_files

\* Line 43 left out: the set stays as it is.
ForgetIncluded(included_files, path) == included_files

\* included_files.add(file_path)
AddIncluded(included_files, path) == included_files \cup {path}

\* The message of line 40.
IncludeNotFound(path) == [kind |-> "Include not found", path |-> path]

RECURSIVE SubIncludes(_, _, _, _, _)
\* include_pattern.sub(replacer, s) from index pos, in directory base, over the
\* files, with st = [included, reads, err] threaded through the calls. Gives
\* [text, st].
SubIncludes(files, s, pos, base, st) ==
    LET m == NextMatch(s, pos)
        before == Slice(s, pos, m.start - 1)
        file_path == Resolve(base, m.name)
    IN IF m = NoMatch THEN [text |-> From(s, pos), st |-> st]
       ELSE IF AlreadyIncluded(file_path, st.included)
            THEN LET rest == SubIncludes(files, s, m.end + 1, base, st)
                 IN [text |-> before \o rest.text, st |-> rest.st]
       ELSE IF file_path \notin DOMAIN files
            THEN LET rest == SubIncludes(files, s, m.end + 1, base,
                                 [st EXCEPT !.err = Append(@, IncludeNotFound(file_path))])
                 IN [text |-> before \o rest.text, st |-> rest.st]
       ELSE LET inner == SubIncludes(files, files[file_path], 1, Parent(file_path),
                             [st EXCEPT !.included = AddIncluded(@, file_path),
                                        !.reads = Append(@, file_path)])
                rest == SubIncludes(files, s, m.end + 1, base, inner.st)
            IN [text |-> before \o inner.text \o <<NL>> \o rest.text, st |-> rest.st]

\* process_includes(shader_content, base_path) with included_files=None.
ProcessIncludes(files, shader_content, base_path) ==
    SubIncludes(files, shader_content, 1, base_path,
                [included |-> {}, reads |-> <<>>, err |-> <<>>])

-----------------------------------------------------------------------------
(* compress_shader *)

\* The characters of the model's texts and their code points (ord).
Chars ==
    <<"\t", "\n", "\f", "\r", " ", "\"", "#", "*", ",", ".", "/",
      "0", "1", "5", ";", "=", "a", "b", "c", "d", "e", "i", "l", "n", "s", "u", "x">>
Codes ==
    <<9, 10, 12, 13, 32, 34, 35, 42, 44, 46, 47,
      48, 49, 53, 59, 61, 97, 98, 99, 100, 101, 105, 108, 110, 115, 117, 120>>

Ord(c) == Codes[CHOOSE i \in 1..Len(Chars) : Chars[i] = c]

\* A text as its code points.
CodePoints(s) == [i \in 1..Len(s) |-> Ord(s[i])]

\* The UTF-8 encoding of one code point (a Unicode scalar value).
Utf8Char(cp) ==
    IF cp < 128 THEN <<cp>>
    ELSE IF cp < 2048 THEN <<192 + (cp \div 64), 128 + (cp % 64)>>
    ELSE IF cp < 65536
         THEN <<224 + (cp \div 4096), 128 + ((cp \div 64) % 64), 128 + (cp % 64)>>
    ELSE <<240 + (cp \div 262144), 128 + ((cp \div 4096) % 64),
           128 + ((cp \div 64) % 64), 128 + (cp % 64)>>

\* shader_content.encode('utf-8'), of a text given as code points.
Utf8(cps) == Concat([i \in 1..Len(cps) |-> Utf8Char(cps[i])])

RECURSIVE LittleEndian(_, _)
\* The k low bytes of n, the least significant first.
LittleEndian(n, k) ==
    IF k = 0 THEN <<>> ELSE <<n % 256>> \o LittleEndian(n \div 256, k - 1)

\* struct.pack('<Q', n), for the 0 <= n < 2^64 it accepts.
PackQ(n) == LittleEndian(n, 8)

\* The n low bits of v, the most significant first (a Huffman code) and the
\* least significant first (extra bits).
BitsMSB(v, n) == [i \in 1..n |-> (v \div 2^(n - i)) % 2]
BitsLSB(v, n) == [i \in 1..n |-> (v \div 2^(i - 1)) % 2]

\* The fixed Huffman code of a literal/length symbol (RFC 1951, 3.2.6).
FixedCode(sym) ==
    IF sym < 144 THEN BitsMSB(48 + sym, 8)
    ELSE IF sym < 256 THEN BitsMSB(400 + (sym - 144), 9)
    ELSE IF sym < 280 THEN BitsMSB(sym - 256, 7)
    ELSE BitsMSB(192 + (sym - 280), 8)

\* The base and the number of extra bits of the length codes 257..285 and of
\* the distance codes 0..29 (RFC 1951, 3.2.5).
LengthBase ==
    <<3, 4, 5, 6, 7, 8, 9, 10, 11, 13, 15, 17, 19, 23, 27, 31, 35, 43, 51, 59,
      67, 83, 99, 115, 131, 163, 195, 227, 258>>
LengthExtra ==
    <<0, 0, 0, 0, 0, 0, 0, 0, 1, 1, 1, 1, 2, 2, 2, 2, 3, 3, 3, 3,
      4, 4, 4, 4, 5, 5, 5, 5, 0>>
DistBase ==
    <<1, 2, 3, 4, 5, 7, 9, 13, 17, 25, 33, 49, 65, 97, 129, 193, 257, 385, 513, 769,
      1025, 1537, 2049, 3073, 4097, 6145, 8193, 12289, 16385, 24577>>
DistExtra ==
    <<0, 0, 0, 0, 1, 1, 2, 2, 3, 3, 4, 4, 5, 5, 6, 6, 7, 7, 8, 8,
      9, 9, 10, 10, 11, 11, 12, 12, 13, 13>>

\* What the matcher emits: a literal byte, or a copy of length bytes from
\* distance bytes back.
Literal(b) == [length |-> 0, distance |-> 0, literal |-> b]
Copy(length, distance) == [length |-> length, distance |-> distance, literal |-> 0]

\* The bits of a token in a block of fixed codes: the literal's code, or the
\* length code, its extra bits, the 5-bit distance code and its extra bits.
TokenBits(t) ==
    IF t.length = 0 THEN FixedCode(t.literal)
    ELSE LET l == Max({i \in 1..Len(LengthBase) : LengthBase[i] <= t.length})
             d == Max({i \in 1..Len(DistBase) : DistBase[i] <= t.distance})
         IN FixedCode(256 + l) \o BitsLSB(t.length - LengthBase[l], LengthExtra[l])
            \o BitsMSB(d - 1, 5) \o BitsLSB(t.distance - DistBase[d], DistExtra[d])

\* zlib's MIN_MATCH and MAX_MATCH, and max_lazy_match of the default level 6.
MIN_MATCH == 3
MAX_MATCH == 258
max_lazy_match == 16

\* How far data agrees with itself read from index p and from index s > p.
CommonLength(data, p, s) ==
    LET room == Len(data) - s + 1
    IN Min({MAX_MATCH} \cup {l \in 0..room : l = room \/ data[p + l] # data[s + l]})

\* longest_match at index strstart: of the earlier strings in the hash chains,
\* which never hold the first index, the longest that is longer than
\* prev_length, the nearest one among equals; [length |-> MIN_MATCH - 1] if
\* there is none or the previous match is max_lazy_match long.
LongestMatch(data, strstart, prev_length) ==
    LET starts == {p \in 2..(strstart - 1) : CommonLength(data, p, strstart) >= MIN_MATCH}
        best == Max({CommonLength(data, p, strstart) : p \in starts} \cup {prev_length})
    IN IF prev_length < max_lazy_match /\ best > prev_length
       THEN [length |-> best,
             start |-> Max({p \in starts : CommonLength(data, p, strstart) = best})]
       ELSE [length |-> MIN_MATCH - 1, start |-> 0]

RECURSIVE DeflateSlow(_, _, _, _, _)
\* deflate_slow (lazy matching) from index strstart on: the match found at the
\* index before is emitted unless a longer one starts here, else the byte before
\* is emitted as a literal once a match was looked for at it.
DeflateSlow(data, strstart, prev_length, prev_match, match_available) ==
    IF strstart > Len(data)
    THEN (IF match_available THEN <<Literal(data[Len(data)])>> ELSE <<>>)
    ELSE LET m == LongestMatch(data, strstart, prev_length)
         IN IF prev_length >= MIN_MATCH /\ m.length <= prev_length
            THEN <<Copy(prev_length, strstart - 1 - prev_match)>>
                 \o DeflateSlow(data, strstart + prev_length - 1, MIN_MATCH - 1, 0, FALSE)
            ELSE (IF match_available THEN <<Literal(data[strstart - 1])>> ELSE <<>>)
                 \o DeflateSlow(data, strstart + 1, m.length, m.start, TRUE)

\* The bits as bytes, each byte filled from its least significant bit, the last
\* one padded with zeros.
PackBits(bits) ==
    LET Bit(i) == IF i <= Len(bits) THEN bits[i] ELSE 0
    IN [k \in 1..((Len(bits) + 7) \div 8) |->
           Bit(8 * k - 7) + 2 * Bit(8 * k - 6) + 4 * Bit(8 * k - 5) + 8 * Bit(8 * k - 4)
           + 16 * Bit(8 * k - 3) + 32 * Bit(8 * k - 2) + 64 * Bit(8 * k - 1) + 128 * Bit(8 * k)]

\* The deflate stream zlib writes for data so short that the fixed codes are
\* its choice (as for all data of the runs here): one final block of fixed
\* Huffman codes (BFINAL = 1, BTYPE = 01), the tokens, the end-of-block code.
Deflate(data) ==
    LET tokens == DeflateSlow(data, 1, MIN_MATCH - 1, 0, FALSE)
    IN PackBits(<<1, 1, 0>> \o Concat([i \in 1..Len(tokens) |-> TokenBits(tokens[i])])
                \o FixedCode(256))

RECURSIVE Sum(_, _, _)
\* f[lo] + ... + f[hi], by halves.
Sum(f, lo, hi) ==
    IF lo > hi THEN 0
    ELSE IF lo = hi THEN f[lo]
    ELSE Sum(f, lo, (lo + hi) \div 2) + Sum(f, (lo + hi) \div 2 + 1, hi)

\* The Adler-32 checksum (RFC 1950) as four bytes, the most significant first:
\* a is 1 plus the sum of the bytes, b the sum of the values a takes byte after
\* byte, both modulo 65521.
Adler32(data) ==
    LET n == Len(data)
        a == (1 + Sum(data, 1, n)) % 65521
        b == (n + Sum([i \in 1..n |-> (n - i + 1) * data[i]], 1, n)) % 65521
    IN <<b \div 256, b % 256, a \div 256, a % 256>>

\* zlib.compress(data) at the default level: the header 78 9C, the deflate
\* stream, the Adler-32 of data.
ZlibCompress(data) == <<120, 156>> \o Deflate(data) \o Adler32(data)

\* The size of the compressed stream.
CompressedSize(shader_bytes, shader_compressed) == Len(shader_compressed)

\* The size the header of the package holds.
HeaderSize(shader_bytes, shader_compressed) == Len(shader_bytes)

\* compress_shader, of a text given as code points.
CompressShader(cps) ==
    LET shader_bytes == Utf8(cps)
        shader_compressed == ZlibCompress(shader_bytes)
        header == PackQ(HeaderSize(shader_bytes, shader_compressed))
    IN header \o shader_compressed

-----------------------------------------------------------------------------
(* The inputs of a run *)

\* The most pieces the files of one file system hold together, in the runs of
\* process_shader and in the runs of main.
MaxPieces == 3
MaxMainPieces == 2

PathA == << <<"a">> >>
PathB == << <<"b">> >>
PathC == << <<"s">>, <<"c">> >>

\* #include "name", on a line of its own.
IncludeLine(name) == IncludeWord \o <<" ", QUOTE>> \o name \o <<QUOTE, NL>>

\* The lines the files are made of: includes of a, b and s/c, an include that
\* names b through "..", a statement, and an include of b inside a block comment.
Pieces ==
    << IncludeLine(<<"a">>),
       IncludeLine(<<"b">>),
       IncludeLine(<<"s", "/", "c">>),
       IncludeLine(<<".", ".", "/", "b">>),
       <<"x", " ", "=", " ", "1", ".", "0", " ", ";", NL>>,
       <<"/", "*", NL>> \o IncludeLine(<<"b">>) \o <<"*", "/", NL>> >>

\* The text of a file made of the pieces numbered by choice.
FileText(choice) == Concat([i \in 1..Len(choice) |-> Pieces[choice[i]]])

\* The sequences of n piece numbers; only the empty one when n <= 0.
Choices(n) == [1..n -> 1..Len(Pieces)]

\* The file system in which a, b and s/c hold the pieces ca, cb and cc; a file
\* whose count is -1 does not exist.
MakeFs(na, ca, nb, cb, nc, cc) ==
    [p \in ({PathA : x \in {na} \ {-1}} \cup {PathB : x \in {nb} \ {-1}}
            \cup {PathC : x \in {nc} \ {-1}}) |->
        IF p = PathA THEN FileText(ca) ELSE IF p = PathB THEN FileText(cb) ELSE FileText(cc)]

Pos(n) == IF n < 0 THEN 0 ELSE n

\* The numbers of pieces of a, b and s/c, at most max together.
Counts(max) ==
    { n \in (-1..max) \X (-1..max) \X (-1..max) : Pos(n[1]) + Pos(n[2]) + Pos(n[3]) <= max }

\* The longest text handed to the whitespace compactor, to the float literal
\* optimizer and (in code points) to the packager, when each runs on its own.
MaxLen == 5
MaxLiteralLen == 5
MaxCodePoints == 3

\* The sequences over alphabet of length at most n.
Texts(alphabet, n) == UNION {[1..k -> alphabet] : k \in 0..n}

\* The characters of the texts handed to the compactor and to the optimizer.
CompactAlphabet == {" ", "\n", "\r", "#", "a", ","}
LiteralAlphabet == {"0", "1", "5", ".", "x"}

\* The code points of the texts handed to the packager: U+0041, U+00E9, U+20AC
\* and U+1F600, of one, two, three and four bytes in UTF-8.
PackAlphabet == {65, 233, 8364, 128512}

\* The command lines: the shader is a; the output file is left out, empty or out.
ArgSets == [shader_path : {PathA}, output_file : {None, "", "out"}, compress : BOOLEAN]

-----------------------------------------------------------------------------
(* main, process_shader and the activations of process_includes, step by step *)

\* A run starts at control point start, with the arguments and the files given.
Start(start, arguments, max) ==
    /\ pc = start
    /\ args \in arguments
    /\ \E n \in Counts(max) : \E c \in Choices(n[1]) \X Choices(n[2]) \X Choices(n[3]) :
          fs = MakeFs(n[1], c[1], n[2], c[2], n[3], c[3])
    /\ matches = [p \in DOMAIN fs |-> Scan(fs[p])]
    /\ input = <<>>
    /\ text = <<>>
    /\ stack = <<>>
    /\ included = {}
    /\ log = <<>>
    /\ err = <<>>
    /\ out = NoOutput
    /\ exit = -1
    /\ hist = <<>>

\* A run of main.
Init == Start("main", ArgSets, MaxMainPieces)

\* A call of process_shader("a").
ShaderInit == Start("read", {[shader_path |-> PathA]}, MaxPieces)

\* not args.output_file
NoOutputFile == args.output_file \in {None, ""}

\* main, line 146: the check of the arguments fails, and sys.exit prints the
\* message and ends the run with status 1.
RejectArgs ==
    /\ pc = "main"
    /\ args.compress /\ NoOutputFile
    /\ err' = Append(err, [kind |-> "Cannot output compressed data to stdout", path |-> <<>>])
    /\ exit' = 1
    /\ pc' = "done"
    /\ UNCHANGED <<args, fs, matches, input, text, stack, included, log, out, hist>>

\* main without the check of lines 146 and 147.
AcceptAnyArgs ==
    /\ pc = "main"
    /\ pc' = "read"
    /\ UNCHANGED <<args, fs, matches, input, text, stack, included, log, err, out, exit, hist>>

\* main, lines 146 to 149: the check passes and process_shader is called.
AcceptArgs ==
    /\ pc = "main"
    /\ ~(args.compress /\ NoOutputFile)
    /\ pc' = "read"
    /\ UNCHANGED <<args, fs, matches, input, text, stack, included, log, err, out, exit, hist>>

\* process_shader, lines 113 to 118: the shader file does not exist.
ReadInputFails ==
    /\ pc = "read"
    /\ args.shader_path \notin DOMAIN fs
    /\ err' = Append(err, [kind |-> "File not found", path |-> args.shader_path])
    /\ exit' = 1
    /\ pc' = "done"
    /\ UNCHANGED <<args, fs, matches, input, text, stack, included, log, out, hist>>

\* An activation of process_includes on the text src of the file, in directory
\* base: the substitution has reached index pos of src and has produced acc,
\* the match it hands to replacer next is the k-th of the file (none is left
\* when the file has fewer), and pending is the path replacer has added to
\* included_files and not read yet.
Frame(file, src, base) ==
    [file |-> file, src |-> src, pos |-> 1, acc |-> <<>>, base |-> base,
     k |-> 1, pending |-> NoPath]

\* process_shader, lines 113 to 123: the shader is read, and process_includes is
\* called on it with a new, empty include set.
ReadInput ==
    /\ pc = "read"
    /\ args.shader_path \in DOMAIN fs
    /\ input' = fs[args.shader_path]
    /\ text' = fs[args.shader_path]
    /\ hist' = Append(hist, [stage |-> "read", value |-> fs[args.shader_path]])
    /\ included' = {}
    /\ stack' = <<Frame(args.shader_path, fs[args.shader_path], Parent(args.shader_path))>>
    /\ pc' = "includes"
    /\ UNCHANGED <<args, fs, matches, log, err, out, exit>>

Top == stack[Len(stack)]

\* The directive the innermost activation is at, and the path it resolves to.
Directive ==
    IF Top.k <= Len(matches[Top.file]) THEN matches[Top.file][Top.k] ELSE NoMatch
DirectivePath == Resolve(Top.base, Directive.name)

\* Whether replacer is called next in the innermost activation.
AtDirective ==
    /\ pc = "includes"
    /\ Top.pending = NoPath
    /\ Directive # NoMatch

\* The innermost activation once the directive is replaced by replacement.
Replaced(replacement) ==
    [Top EXCEPT !.acc = @ \o Slice(Top.src, Top.pos, Directive.start - 1) \o replacement,
                !.pos = Directive.end + 1,
                !.k = @ + 1,
                !.pending = NoPath]

\* replacer, lines 36 and 37: the path is in the include set.
ReplacerSkip ==
    /\ AtDirective
    /\ AlreadyIncluded(DirectivePath, included)
    /\ stack' = [stack EXCEPT ![Len(stack)] = Replaced(<<>>)]
    /\ log' = Append(log, [op |-> "skip", path |-> DirectivePath])
    /\ UNCHANGED <<pc, args, fs, matches, input, text, included, err, out, exit, hist>>

\* A replacer that gives up at a path that is no file: the message, and the
\* exit with status 1.
ReplacerAborts ==
    /\ AtDirective
    /\ ~AlreadyIncluded(DirectivePath, included)
    /\ DirectivePath \notin DOMAIN fs
    /\ err' = Append(err, IncludeNotFound(DirectivePath))
    /\ log' = Append(log, [op |-> "missing", path |-> DirectivePath])
    /\ exit' = 1
    /\ pc' = "done"
    /\ UNCHANGED <<args, fs, matches, input, text, stack, included, out, hist>>

\* replacer, lines 39 to 41: the path is no file.
ReplacerMissing ==
    /\ AtDirective
    /\ ~AlreadyIncluded(DirectivePath, included)
    /\ DirectivePath \notin DOMAIN fs
    /\ err' = Append(err, IncludeNotFound(DirectivePath))
    /\ stack' = [stack EXCEPT ![Len(stack)] = Replaced(<<>>)]
    /\ log' = Append(log, [op |-> "missing", path |-> DirectivePath])
    /\ UNCHANGED <<pc, args, fs, matches, input, text, included, out, exit, hist>>

\* replacer, line 43: the path enters the include set.
ReplacerAdd ==
    /\ AtDirective
    /\ ~AlreadyIncluded(DirectivePath, included)
    /\ DirectivePath \in DOMAIN fs
    /\ included' = AddIncluded(included, DirectivePath)
    /\ stack' = [stack EXCEPT ![Len(stack)].pending = DirectivePath]
    /\ log' = Append(log, [op |-> "add", path |-> DirectivePath])
    /\ UNCHANGED <<pc, args, fs, matches, input, text, err, out, exit, hist>>

\* replacer, lines 44 and 45: the file is read and process_includes is called on
\* its text, in its directory, with the same include set.
ReplacerRead ==
    /\ pc = "includes"
    /\ Top.pending # NoPath
    /\ stack' = Append([stack EXCEPT ![Len(stack)] = Replaced(<<>>)],
                       Frame(Top.pending, fs[Top.pending], Parent(Top.pending)))
    /\ log' = Append(log, [op |-> "read", path |-> Top.pending])
    /\ UNCHANGED <<pc, args, fs, matches, input, text, included, err, out, exit, hist>>

\* What the innermost activation returns once no directive is left (line 47).
Result == Top.acc \o From(Top.src, Top.pos)

\* Lines 47 and 45: a nested activation returns, and replacer returns its result
\* and a newline to the substitution of the caller.
ReturnNested ==
    /\ pc = "includes"
    /\ Len(stack) > 1
    /\ Top.pending = NoPath
    /\ Directive = NoMatch
    /\ stack' = [Slice(stack, 1, Len(stack) - 1) EXCEPT
                    ![Len(stack) - 1].acc = @ \o Result \o <<NL>>]
    /\ UNCHANGED <<pc, args, fs, matches, input, text, included, log, err, out, exit, hist>>

\* Line 47 of the outermost activation, and line 123: process_includes returns
\* to process_shader.
ReturnIncludes ==
    /\ pc = "includes"
    /\ Len(stack) = 1
    /\ Top.pending = NoPath
    /\ Directive = NoMatch
    /\ text' = Result
    /\ hist' = Append(hist, [stage |-> "process_includes", value |-> text'])
    /\ stack' = <<>>
    /\ pc' = "comments"
    /\ UNCHANGED <<args, fs, matches, input, included, log, err, out, exit>>

\* A stage of process_shader: text becomes value, and the run goes on at next.
Stage(at, name, value, next) ==
    /\ pc = at
    /\ text' = value
    /\ hist' = Append(hist, [stage |-> name, value |-> text'])
    /\ pc' = next
    /\ UNCHANGED <<args, fs, matches, input, stack, included, log, err, out, exit>>

\* process_shader, lines 124 to 127.
StripComments == Stage("comments", "remove_comments", RemoveComments(text), "newlines")
CompactNewlines == Stage("newlines", "remove_newlines", RemoveNewlines(text), "spaces")
CompactSpaces == Stage("spaces", "normalize_spaces", NormalizeSpaces(text), "floats")
OptimizeLiterals ==
    Stage("floats", "optimize_float_literals", OptimizeFloatLiterals(text), "package")

\* main, lines 151 and 152.
Package ==
    /\ pc = "package"
    /\ args.compress
    /\ Stage("package", "compress_shader", CompressShader(CodePoints(text)), "write")

SkipPackage ==
    /\ pc = "package"
    /\ ~args.compress
    /\ pc' = "write"
    /\ UNCHANGED <<args, fs, matches, input, text, stack, included, log, err, out, exit, hist>>

\* main, lines 154 to 160: the output is written, to the file or to stdout.
WriteOutput ==
    /\ pc = "write"
    /\ out' = IF NoOutputFile
              THEN [dest |-> "stdout", mode |-> "w", data |-> text]
              ELSE [dest |-> args.output_file,
                    mode |-> IF args.compress THEN "wb" ELSE "w",
                    data |-> text]
    /\ exit' = 0
    /\ pc' = "done"
    /\ UNCHANGED <<args, fs, matches, input, text, stack, included, log, err, hist>>

\* main, lines 161 and 162: the write raises OSError.
WriteFails ==
    /\ pc = "write"
    /\ err' = Append(err, [kind |-> "Error writing to output", path |-> <<>>])
    /\ exit' = 1
    /\ pc' = "done"
    /\ UNCHANGED <<args, fs, matches, input, text, stack, included, log, out, hist>>

\* The steps of process_shader up to the return of process_includes.
IncludeNext ==
    \/ ReadInputFails
    \/ ReadInput
    \/ ReplacerSkip
    \/ ReplacerMissing
    \/ ReplacerAdd
    \/ ReplacerRead
    \/ ReturnNested
    \/ ReturnIncludes

\* The steps of process_shader.
ShaderNext ==
    \/ IncludeNext
    \/ StripComments
    \/ CompactNewlines
    \/ CompactSpaces
    \/ OptimizeLiterals

\* The steps of main.
Next ==
    \/ RejectArgs
    \/ AcceptArgs
    \/ ShaderNext
    \/ Package
    \/ SkipPackage
    \/ WriteOutput
    \/ WriteFails

Spec == Init /\ [][Next]_vars


\* The calls of process_shader, to the return of line 129 or the exit of line 118.
ShaderSpec == ShaderInit /\ [][ShaderNext]_vars

\* The interpreter runs the program on: while process_includes can take a step,
\* that step is not put off for ever.
FairShaderSpec == ShaderSpec /\ WF_vars(IncludeNext)

-----------------------------------------------------------------------------
(* The stages on their own, on texts given *)

\* Control is at stage start of a run whose text is one of texts.
Given(start, texts) ==
    /\ pc = start
    /\ args = [shader_path |-> PathA, output_file |-> "out", compress |-> TRUE]
    /\ fs = [p \in {} |-> <<>>]
    /\ matches = [p \in {} |-> <<>>]
    /\ text \in texts
    /\ input = text
    /\ stack = <<>>
    /\ included = {}
    /\ log = <<>>
    /\ err = <<>>
    /\ out = NoOutput
    /\ exit = -1
    /\ hist = <<>>

\* remove_newlines and normalize_spaces are called once more, on what they
\* returned.
Recompact ==
    /\ pc = "floats"
    /\ Len(hist) = 2
    /\ pc' = "newlines"
    /\ UNCHANGED <<args, fs, matches, input, text, stack, included, log, err, out, exit, hist>>

\* The whitespace compactor, run twice over a text.
CompactInit == Given("newlines", Texts(CompactAlphabet, MaxLen))
CompactNext ==
    \/ CompactNewlines
    \/ CompactSpaces
    \/ Recompact
CompactSpec == CompactInit /\ [][CompactNext]_vars

\* optimize_float_literals, run over a text.
LiteralInit == Given("floats", Texts(LiteralAlphabet, MaxLiteralLen))
LiteralSpec == LiteralInit /\ [][OptimizeLiterals]_vars

\* compress_shader, called on a text given as code points.
CompressText ==
    Stage("package", "compress_shader", CompressShader(text), "write")

PackInit == Given("package", Texts(PackAlphabet, MaxCodePoints))
PackSpec == PackInit /\ [][CompressText]_vars

-----------------------------------------------------------------------------
(* What the claims speak of *)

\* The paths of the log entries with operation op, in order.
Logged(op) ==
    LET entries == SelectSeq(log, LAMBDA e : e.op = op)
    IN [i \in 1..Len(entries) |-> entries[i].path]

Range(seq) == {seq[i] : i \in 1..Len(seq)}

\* Whether process_includes has returned to process_shader.
IncludesDone == pc \notin {"main", "read", "includes"} /\ hist # <<>>

\* process_includes has just returned to process_shader (line 123).
IncludesReturned == pc = "comments" /\ Len(hist) = 2

\* The existing files the directives of text s, in directory base, name.
Targets(s, base) ==
    {Resolve(base, m.name) : m \in Range(MatchesFrom(s, 1))} \cap DOMAIN fs

RECURSIVE Closure(_)
\* The existing files reached from the files seen through their directives.
Closure(seen) ==
    LET more == UNION {Targets(fs[p], Parent(p)) : p \in seen}
    IN IF more \subseteq seen THEN seen ELSE Closure(seen \cup more)

\* The existing files the shader reaches through include directives.
Reachable == Closure(Targets(input, Parent(args.shader_path)))

\* The directives of the shader's own text: all, and those in a block comment.
TopMatches == MatchesFrom(input, 1)
TopPath(m) == Resolve(Parent(args.shader_path), m.name)
Commented(m) == InComment(input, m)

-----------------------------------------------------------------------------
(* C1 *)

\* C1: during one top-level call of process_includes every path is read and
\* inlined at most once: no path is read twice, a path is in the include set
\* before it is read, the set only grows, and a directive that resolves to a
\* path of the set is replaced by the empty string, with nothing read.
IncludedAtMostOnce ==
    /\ [](\A i, j \in 1..Len(Logged("read")) :
              Logged("read")[i] = Logged("read")[j] => i = j)
    /\ [][log' # log /\ Last(log').op = "read" => Last(log').path \in included]_vars
    /\ [][pc = "includes" => included \subseteq included']_vars
    /\ [][AtDirective /\ DirectivePath \in included =>
            /\ stack' = [stack EXCEPT ![Len(stack)] = Replaced(<<>>)]
            /\ log' = Append(log, [op |-> "skip", path |-> DirectivePath])
            /\ included' = included]_vars

\* A diamond or a cycle has been resolved: a path read once was named again and
\* skipped, and another file was read as well.
IncludedAtMostOnceWitness ==
    /\ IncludesDone
    /\ \E i, j \in 1..Len(log) :
          /\ i < j
          /\ log[i].op = "read" /\ log[j].op = "skip" /\ log[i].path = log[j].path
    /\ Cardinality(Range(Logged("read"))) >= 2

-----------------------------------------------------------------------------
(* C2 *)

\* C2: process_includes terminates on every file system, cycles and
\* self-includes included: a nested call is made only for a path that has just
\* entered the include set and was not in it, so the depth of the recursion is
\* at most the number of existing files, and the call returns.
IncludesTerminate ==
    /\ [](included \subseteq DOMAIN fs)
    /\ [](Len(stack) <= 1 + Cardinality(included))
    /\ [](Len(stack) <= 1 + Cardinality(DOMAIN fs))
    /\ [][Len(stack') > Len(stack) /\ pc = "includes" =>
            /\ Last(log) = [op |-> "add", path |-> Top.pending]
            /\ Top.pending \in included
            /\ stack'[Len(stack')].file = Top.pending]_vars
    /\ [][included' # included =>
            \E p \in DOMAIN fs : p \notin included /\ included' = included \cup {p}]_vars
    /\ <>(pc \notin {"read", "includes"})

\* process_includes has returned although the files include each other in a
\* cycle (a file that includes itself is the cycle of length one).
IncludesTerminateWitness ==
    /\ IncludesDone
    /\ \E p, q \in included :
          /\ q \in Targets(fs[p], Parent(p))
          /\ p \in Targets(fs[q], Parent(q))

-----------------------------------------------------------------------------
(* C3 *)

RECURSIVE DropDirectivesTo(_, _, _, _)
\* Text s from index pos on, with every directive that resolves (in directory
\* base) to path replaced by the empty string.
DropDirectivesTo(s, pos, base, path) ==
    LET m == NextMatch(s, pos)
    IN IF m = NoMatch THEN From(s, pos)
       ELSE IF Resolve(base, m.name) = path
            THEN Slice(s, pos, m.start - 1) \o DropDirectivesTo(s, m.end + 1, base, path)
       ELSE Slice(s, pos, m.end) \o DropDirectivesTo(s, m.end + 1, base, path)

\* Whether the shader names itself in one of its own directives.
IncludesItself ==
    \E i \in 1..Len(TopMatches) : TopPath(TopMatches[i]) = args.shader_path

\* C3: for a shader that includes itself, include resolution gives what it
\* gives for the same text with the self-referencing directives replaced by the
\* empty string.
SelfIncludeIsDropped ==
    IncludesDone /\ IncludesItself =>
        hist[2].value =
            ProcessIncludes(fs,
                            DropDirectivesTo(input, 1, Parent(args.shader_path),
                                             args.shader_path),
                            Parent(args.shader_path)).text

-----------------------------------------------------------------------------
(* C4 *)

\* C4: a directive that resolves to no existing file, at any depth, gets a
\* diagnostic that names the path and is replaced by the empty string, and the
\* run goes on: it stays out of the error exit, and every existing file the
\* shader reaches through the other directives is still included.
MissingIncludeIsSkipped ==
    /\ [][AtDirective /\ DirectivePath \notin included /\ DirectivePath \notin DOMAIN fs =>
            /\ err' = Append(err, IncludeNotFound(DirectivePath))
            /\ stack' = [stack EXCEPT ![Len(stack)] = Replaced(<<>>)]
            /\ pc' = "includes"
            /\ exit' = -1]_vars
    /\ [](Range(Logged("missing")) # {} => exit # 1)
    /\ [](IncludesReturned =>
            /\ included = Reachable /\ Range(Logged("read")) = Reachable
            /\ hist[2].value = ProcessIncludes(fs, input, Parent(args.shader_path)).text)

\* A directive of a nested file named no file, and a directive that followed it
\* in an including file was resolved and its file read.
MissingIncludeIsSkippedWitness ==
    /\ IncludesDone
    /\ \E i, j, k \in 1..Len(log) :
          /\ i < j /\ j < k
          /\ log[i].op = "read" /\ log[j].op = "missing" /\ log[k].op = "read"
          /\ log[k].path \in Targets(input, Parent(args.shader_path))

-----------------------------------------------------------------------------
(* C8 *)

\* C8: with the compress flag and no output path, main ends with a diagnostic
\* and a non-zero status before any processing: the input is not read, no
\* include is resolved, no stage runs, nothing is written.
CompressNeedsOutputFile ==
    args.compress /\ args.output_file = None =>
        /\ pc \in {"main", "done"}
        /\ hist = <<>> /\ input = <<>> /\ text = <<>>
        /\ stack = <<>> /\ log = <<>> /\ included = {}
        /\ out = NoOutput
        /\ pc = "done" => exit = 1 /\ Len(err) = 1
                          /\ err[1].kind = "Cannot output compressed data to stdout"

\* main has ended on the compress flag without an output path, the shader
\* being a file that could have been read.
CompressNeedsOutputFileWitness ==
    /\ args.compress /\ args.output_file = None
    /\ pc = "done"
    /\ args.shader_path \in DOMAIN fs

-----------------------------------------------------------------------------
(* C10 *)

\* C10: include resolution runs before comment stripping, so a directive at
\* the start of a line inside a block comment is resolved like any other: its
\* file is read and enters the include set, and a later directive outside the
\* comment that names the same file is replaced by the empty string.
CommentedIncludeIsResolved ==
    IncludesReturned =>
        LET found == TopMatches
            paths == [i \in 1..Len(found) |-> TopPath(found[i])]
        IN \A i \in 1..Len(found) :
               Commented(found[i]) /\ paths[i] \in DOMAIN fs =>
                   /\ paths[i] \in included
                   /\ paths[i] \in Range(Logged("read"))
                   /\ \A j \in (i + 1)..Len(found) :
                         paths[j] = paths[i] =>
                             \E k \in 1..Len(log) :
                                 /\ log[k] = [op |-> "skip", path |-> paths[j]]
                                 /\ \E r \in 1..(k - 1) :
                                       log[r] = [op |-> "read", path |-> paths[j]]

\* The shader held a directive inside a block comment and, after the comment,
\* a directive naming the same existing file, and its includes are resolved.
CommentedIncludeIsResolvedWitness ==
    /\ IncludesDone
    /\ \E i, j \in 1..Len(TopMatches) :
          /\ i < j
          /\ Commented(TopMatches[i])
          /\ ~Commented(TopMatches[j])
          /\ TopPath(TopMatches[i]) \in DOMAIN fs
          /\ TopPath(TopMatches[i]) # args.shader_path
          /\ TopPath(TopMatches[j]) = TopPath(TopMatches[i])

-----------------------------------------------------------------------------
(* C5 *)

\* The non-blank lines of a text, as remove_newlines reads them.
InputLines(x) == SelectSeq(SplitLines(x), NonBlank)

\* The group-th run of lines, when the lines are cut after the indices in cuts.
Run(lines, cuts, group) ==
    LET cut == SelectSeq(Indices(lines), LAMBDA i : i \in cuts)
    IN SubSeq(lines, IF group = 1 THEN 1 ELSE cut[group - 1] + 1,
                     IF group > Len(cut) THEN Len(lines) ELSE cut[group])

\* What the compactor gives when the output lines are the runs the cuts make.
Compacted(lines, cuts) ==
    JoinNL([group \in 1..(Cardinality(cuts) + 1) |->
               NormalizeLine(Concat(Run(lines, cuts, group)))])

\* Whether the cuts leave every directive line in a run of its own.
DirectivesAlone(lines, cuts) ==
    \A i \in 1..Len(lines) :
        IsDirective(lines[i]) =>
            /\ (i = 1 \/ i - 1 \in cuts)
            /\ (i = Len(lines) \/ i \in cuts)

\* C5: in the output of remove_newlines followed by normalize_spaces, a
\* directive line shares its output line with no other input line: the output
\* lines are runs of consecutive non-blank input lines, and every directive line
\* is a run of its own, whatever blank lines lie between and whatever the order.
DirectiveLinesStayAlone ==
    Len(hist) = 2 /\ pc = "floats" =>
        \E cuts \in SUBSET (1..(Len(InputLines(input)) - 1)) :
            /\ DirectivesAlone(InputLines(input), cuts)
            /\ hist[2].value = Compacted(InputLines(input), cuts)

\* The compactor has run on a text in which a directive line comes after a
\* non-directive line, with a blank line between them, or before one.
DirectiveLinesStayAloneWitness ==
    /\ Len(hist) >= 2
    /\ Len(SplitLines(input)) > Len(InputLines(input))
    /\ \E i \in 1..(Len(InputLines(input)) - 1) :
          IsDirective(InputLines(input)[i]) # IsDirective(InputLines(input)[i + 1])

-----------------------------------------------------------------------------
(* C6 *)

\* C6: with f(x) = normalize_spaces(remove_newlines(x)), f(f(x)) = f(x): the
\* second run of the two stages returns what the first run returned.
CompactionIsIdempotent ==
    Len(hist) = 4 => hist[4].value = hist[2].value

\* The two stages have run twice on a text that the first run changed, with a
\* run of blanks next to a symbol in it.
CompactionIsIdempotentWitness ==
    /\ Len(hist) = 4
    /\ hist[2].value # input
    /\ \E i \in 1..(Len(input) - 2) :
          /\ input[i] \in HSpace /\ input[i + 1] \in HSpace
          /\ input[i + 2] = ","

-----------------------------------------------------------------------------
(* C7 *)

\* Whether the text is 0.0...0: the integer part 0 and a fraction of zeros.
IsZeroLiteral(x) ==
    /\ Len(x) >= 3
    /\ x[1] = "0" /\ x[2] = "."
    /\ \A i \in 3..Len(x) : x[i] = "0"

\* C7: optimize_float_literals maps 1.000 to 1., 0.5 to .5, 10.00 to 10. and
\* 0.50 to .50; a literal whose integer part is 0 and whose fraction is all
\* zeros becomes 0. (the first rule takes its fraction; it never becomes .0),
\* so 0.0 is mapped to 0.; the result is that of the two rules, each run once,
\* the second on what the first returned.
LiteralsAreShortened ==
    pc = "package" =>
        /\ input = <<"1", ".", "0", "0", "0">> => text = <<"1", ".">>
        /\ input = <<"0", ".", "5">> => text = <<".", "5">>
        /\ input = <<"1", "0", ".", "0", "0">> => text = <<"1", "0", ".">>
        /\ input = <<"0", ".", "5", "0">> => text = <<".", "5", "0">>
        /\ IsZeroLiteral(input) => text = <<"0", ".">>
        /\ text = StripLeadingZero(StripFractionZeros(input, 1), 1)

\* The optimizer has run on the literal 0.0.
LiteralsAreShortenedWitness ==
    /\ pc = "package"
    /\ input = <<"0", ".", "0">>
    /\ hist # <<>>

\* The statement that 0.0 is left unchanged.
ZeroLiteralIsUnchanged ==
    pc = "package" /\ IsZeroLiteral(input) => text = input

-----------------------------------------------------------------------------
(* C9 *)

RECURSIVE FromLittleEndian(_)
\* The number whose bytes, the least significant first, are given.
FromLittleEndian(bytes) ==
    IF bytes = <<>> THEN 0 ELSE Head(bytes) + 256 * FromLittleEndian(Tail(bytes))

\* The bits of the bytes, each byte from its least significant bit.
UnpackBits(bytes) == [i \in 1..(8 * Len(bytes)) |-> (bytes[(i + 7) \div 8] \div 2^((i - 1) % 8)) % 2]

\* The number of the n bits from index p on, the first bit the most significant
\* (a Huffman code) or the least significant (extra bits); bits past the end are 0.
CodeAt(bits, p, n) ==
    Sum([i \in 1..n |-> (IF p + i - 1 <= Len(bits) THEN bits[p + i - 1] ELSE 0) * 2^(n - i)], 1, n)
ExtraAt(bits, p, n) ==
    Sum([i \in 1..n |-> (IF p + i - 1 <= Len(bits) THEN bits[p + i - 1] ELSE 0) * 2^(i - 1)], 1, n)

\* The literal/length symbol whose fixed code starts at index p, with the
\* length of the code.
SymbolAt(bits, p) ==
    IF CodeAt(bits, p, 7) <= 23 THEN [sym |-> 256 + CodeAt(bits, p, 7), width |-> 7]
    ELSE IF CodeAt(bits, p, 8) \in 48..191 THEN [sym |-> CodeAt(bits, p, 8) - 48, width |-> 8]
    ELSE IF CodeAt(bits, p, 8) \in 192..199
         THEN [sym |-> 280 + (CodeAt(bits, p, 8) - 192), width |-> 8]
    ELSE [sym |-> 144 + (CodeAt(bits, p, 9) - 400), width |-> 9]

Failed == [ok |-> FALSE, data |-> <<>>]

RECURSIVE InflateFixed(_, _, _)
\* The bytes a block of fixed codes holds, decoded from index p on after the
\* bytes done so far (RFC 1951, 3.2.3): a literal is appended, a length and a distance
\* copy bytes already decoded, the end-of-block code ends the data.
InflateFixed(bits, p, done) ==
    LET s == SymbolAt(bits, p)
        q == p + s.width
        l == s.sym - 256
        length == LengthBase[l] + ExtraAt(bits, q, LengthExtra[l])
        r == q + LengthExtra[l]
        d == CodeAt(bits, r, 5) + 1
        distance == DistBase[d] + ExtraAt(bits, r + 5, DistExtra[d])
    IN IF q - 1 > Len(bits) THEN Failed
       ELSE IF s.sym < 256 THEN InflateFixed(bits, q, Append(done, s.sym))
       ELSE IF s.sym = 256 THEN [ok |-> TRUE, data |-> done]
       ELSE IF l > Len(LengthBase) \/ d > Len(DistBase) \/ distance > Len(done) THEN Failed
       ELSE InflateFixed(bits, r + 5 + DistExtra[d],
                         done \o [i \in 1..length |->
                                    done[Len(done) - distance + 1 + ((i - 1) % distance)]])

\* zlib.decompress of a stream of one final block of fixed codes: the header
\* is checked, the block is decoded, and the Adler-32 of the data is compared
\* with the four bytes after the block.
ZlibDecompress(stream) ==
    LET bits == UnpackBits(Slice(stream, 3, Len(stream) - 4))
        block == InflateFixed(bits, 4, <<>>)
    IN IF /\ Len(stream) >= 8
          /\ stream[1] % 16 = 8
          /\ (256 * stream[1] + stream[2]) % 31 = 0
          /\ (stream[2] \div 32) % 2 = 0
          /\ SubSeq(bits, 1, 3) = <<1, 1, 0>>
          /\ block.ok
          /\ From(stream, Len(stream) - 3) = Adler32(block.data)
       THEN block
       ELSE Failed

====
